---- MODULE Spec2Model ----
(***************************************************************************)
(* Model of the truncation and excerpting engine of agent-chat-search      *)
(* (src/lib/snippet.ts): findWordBoundary, extractSnippet,                 *)
(* mergeOverlappingRanges, extractMultiMatchSnippet, applyContentLimit.    *)
(*                                                                         *)
(* A document is a sequence of UTF-16 code units (naturals).  JavaScript   *)
(* positions are 0-based; TLA+ sequences are 1-based, so the code unit at  *)
(* JavaScript index k of a string s is s[k + 1].                           *)
(*                                                                         *)
(* The library keeps no state between calls.  The state of the model is    *)
(* the caller's view of one call: the arguments it passed and the value    *)
(* that came back.  Objects passed by reference (the range array of        *)
(* mergeOverlappingRanges) stay in the state after the call, so that a     *)
(* write through the reference is visible.                                 *)
(***************************************************************************)
EXTENDS Integers, Sequences, FiniteSets, TLC

VARIABLES op, content, position, direction, matchStart, matchEnd,
          snippetSize, matches, maxLength, maxTokens, ranges, rangesBefore,
          sessions, options, results, result

vars == <<op, content, position, direction, matchStart, matchEnd,
          snippetSize, matches, maxLength, maxTokens, ranges, rangesBefore,
          sessions, options, results, result>>

-----------------------------------------------------------------------------
(* Bounds of the model *)

\* Documents are short (0..MaxShortLen code units) or long (MaxDocLen - 1 or
\* MaxDocLen code units: longer than the boundary search distance and long
\* enough for two snippet windows more than the merge gap apart).
MaxShortLen == 3
MaxDocLen == 27
\* largest snippetSize (radius)
MaxRadius == 2
\* widest match
MaxMatchLen == 1
\* most matches handed to extractMultiMatchSnippet
MaxMatches == 2
\* most ranges handed to mergeOverlappingRanges
MaxRanges == 3
\* most matches handed to enforceTokenBudget
MaxItems == 3
\* largest small token budget
MaxBudget == 36
\* most messages of a session
MaxMessages == 2
\* most matches one reader returns to searchAgents
MaxReaderMatches == 2
\* length of the long documents handed to extractSnippet (more than twice
\* the search distance of findWordBoundary)
MaxLongLen == 42

-----------------------------------------------------------------------------
(* Program constants *)

MAX_WORD_BOUNDARY_SEARCH == 20
MERGE_GAP == 10
ELLIPSIS_LEN == 3
SEPARATOR_LEN == 7

\* '...'
Ellipsis == <<46, 46, 46>>
\* ' [...] '
Separator == <<32, 91, 46, 46, 46, 93, 32>>

\* The class /[\s\n\r\t.,;:!?()[\]{}'"\/\-]/ as code units: ECMAScript \s
\* (white space and line terminators) and the listed punctuation.
WordBoundaryUnits ==
    {9, 10, 11, 12, 13, 32, 160, 5760, 8232, 8233, 8239, 8287, 12288, 65279}
    \cup (8192..8202)
    \cup {46, 44, 59, 58, 33, 63, 40, 41, 91, 93, 123, 125, 39, 34, 47, 45}

isWordBoundary(char) == char \in WordBoundaryUnits

-----------------------------------------------------------------------------
(* JavaScript built-ins the code uses *)

Min(a, b) == IF a <= b THEN a ELSE b
Max(a, b) == IF a >= b THEN a ELSE b

\* s[k]: the code unit at 0-based index k, or -1 for undefined (out of range),
\* which the boundary regex does not match.
CharAt(s, k) == IF k >= 0 /\ k < Len(s) THEN s[k + 1] ELSE -1

\* s.substring(a, b): both ends clamped to [0, length], swapped when a > b.
substring(s, a, b) ==
    LET ca == Max(0, Min(a, Len(s)))
        cb == Max(0, Min(b, Len(s)))
    IN SubSeq(s, Min(ca, cb) + 1, Max(ca, cb))

-----------------------------------------------------------------------------
(* findWordBoundary *)

RECURSIVE ScanBackward(_, _, _, _)
ScanBackward(doc, pos, i, searchDistance) ==
    IF i >= searchDistance THEN pos
    ELSE IF isWordBoundary(CharAt(doc, pos - i)) THEN pos - i
    ELSE ScanBackward(doc, pos, i + 1, searchDistance)

RECURSIVE ScanForward(_, _, _, _)
ScanForward(doc, pos, i, searchDistance) ==
    IF i >= searchDistance THEN pos
    ELSE IF isWordBoundary(CharAt(doc, pos + i)) THEN pos + i
    ELSE ScanForward(doc, pos, i + 1, searchDistance)

\* Faulty variant: the search distance is not capped at
\* MAX_WORD_BOUNDARY_SEARCH.
findWordBoundary_UncappedSearch(doc, pos, dir) ==
    IF pos <= 0 THEN 0
    ELSE IF pos >= Len(doc) THEN Len(doc)
    ELSE LET searchDistance ==
                 IF dir = "backward" THEN pos ELSE Len(doc) - pos
         IN IF dir = "backward"
            THEN ScanBackward(doc, pos, 0, searchDistance)
            ELSE ScanForward(doc, pos, 0, searchDistance)

\* Faulty variant: the guard for a position at or beyond the end is missing.
findWordBoundary_NoEndClamp(doc, pos, dir) ==
    IF pos <= 0 THEN 0
    ELSE LET searchDistance ==
                 Min(MAX_WORD_BOUNDARY_SEARCH,
                     IF dir = "backward" THEN pos ELSE Len(doc) - pos)
         IN IF dir = "backward"
            THEN ScanBackward(doc, pos, 0, searchDistance)
            ELSE ScanForward(doc, pos, 0, searchDistance)

findWordBoundary(doc, pos, dir) ==
    IF pos <= 0 THEN 0
    ELSE IF pos >= Len(doc) THEN Len(doc)
    ELSE LET searchDistance ==
                 Min(MAX_WORD_BOUNDARY_SEARCH,
                     IF dir = "backward" THEN pos ELSE Len(doc) - pos)
         IN IF dir = "backward"
            THEN ScanBackward(doc, pos, 0, searchDistance)
            ELSE ScanForward(doc, pos, 0, searchDistance)

-----------------------------------------------------------------------------
(* TruncationMetadata *)

Metadata(truncated, originalLength, start, end, type) ==
    [content_truncated |-> truncated,
     original_length   |-> originalLength,
     snippet_start     |-> start,
     snippet_end       |-> end,
     truncation_type   |-> type]

-----------------------------------------------------------------------------
(* extractSnippet *)

\* Faulty variant: the start is snapped forward, like the end.
extractSnippet_ForwardStart(doc, mStart, mEnd, size) ==
    IF Len(doc) = 0
    THEN [snippet |-> <<>>, metadata |-> Metadata(FALSE, 0, 0, 0, "none")]
    ELSE IF Len(doc) <= size * 2 + (mEnd - mStart)
    THEN [snippet |-> doc,
          metadata |-> Metadata(FALSE, Len(doc), 0, Len(doc), "none")]
    ELSE LET snippetStart ==
                 findWordBoundary(doc, Max(0, mStart - size), "forward")
             snippetEnd ==
                 findWordBoundary(doc, Min(Len(doc), mEnd + size), "forward")
         IN [snippet  |-> substring(doc, snippetStart, snippetEnd),
             metadata |-> Metadata(TRUE, Len(doc), snippetStart, snippetEnd,
                                   "snippet")]

\* Faulty variant: the window is one code unit wider on each side.
extractSnippet_WiderWindow(doc, mStart, mEnd, size) ==
    IF Len(doc) = 0
    THEN [snippet |-> <<>>, metadata |-> Metadata(FALSE, 0, 0, 0, "none")]
    ELSE IF Len(doc) <= size * 2 + (mEnd - mStart)
    THEN [snippet |-> doc,
          metadata |-> Metadata(FALSE, Len(doc), 0, Len(doc), "none")]
    ELSE LET snippetStart ==
                 findWordBoundary(doc, Max(0, mStart - size - 1), "backward")
             snippetEnd ==
                 findWordBoundary(doc, Min(Len(doc), mEnd + size + 1),
                                  "forward")
         IN [snippet  |-> substring(doc, snippetStart, snippetEnd),
             metadata |-> Metadata(TRUE, Len(doc), snippetStart, snippetEnd,
                                   "snippet")]

\* Faulty variant: a document exactly as long as the window is truncated too
\* (< for <= in the threshold test).
extractSnippet_StrictThreshold(doc, mStart, mEnd, size) ==
    IF Len(doc) = 0
    THEN [snippet |-> <<>>, metadata |-> Metadata(FALSE, 0, 0, 0, "none")]
    ELSE IF Len(doc) < size * 2 + (mEnd - mStart)
    THEN [snippet |-> doc,
          metadata |-> Metadata(FALSE, Len(doc), 0, Len(doc), "none")]
    ELSE LET snippetStart ==
                 findWordBoundary(doc, Max(0, mStart - size), "backward")
             snippetEnd ==
                 findWordBoundary(doc, Min(Len(doc), mEnd + size), "forward")
         IN [snippet  |-> substring(doc, snippetStart, snippetEnd),
             metadata |-> Metadata(TRUE, Len(doc), snippetStart, snippetEnd,
                                   "snippet")]

extractSnippet(doc, mStart, mEnd, size) ==
    IF Len(doc) = 0
    THEN [snippet |-> <<>>, metadata |-> Metadata(FALSE, 0, 0, 0, "none")]
    ELSE IF Len(doc) <= size * 2 + (mEnd - mStart)
    THEN [snippet |-> doc,
          metadata |-> Metadata(FALSE, Len(doc), 0, Len(doc), "none")]
    ELSE LET snippetStart ==
                 findWordBoundary(doc, Max(0, mStart - size), "backward")
             snippetEnd ==
                 findWordBoundary(doc, Min(Len(doc), mEnd + size), "forward")
         IN [snippet  |-> substring(doc, snippetStart, snippetEnd),
             metadata |-> Metadata(TRUE, Len(doc), snippetStart, snippetEnd,
                                   "snippet")]

-----------------------------------------------------------------------------
(* applyContentLimit *)

\* Faulty variant: the untruncated branch reports the limit as snippet_end.
applyContentLimit_EndIsLimit(doc, maxLen) ==
    IF Len(doc) = 0 \/ Len(doc) <= maxLen
    THEN [content  |-> doc,
          metadata |-> Metadata(FALSE, Len(doc), 0, maxLen, "none")]
    ELSE LET cutPoint == findWordBoundary(doc, maxLen, "backward")
         IN [content  |-> substring(doc, 0, cutPoint) \o Ellipsis,
             metadata |-> Metadata(TRUE, Len(doc), 0, cutPoint, "length")]

\* Faulty variant: the cut point is snapped forward instead of backward.
applyContentLimit_ForwardCut(doc, maxLen) ==
    IF Len(doc) = 0 \/ Len(doc) <= maxLen
    THEN [content  |-> doc,
          metadata |-> Metadata(FALSE, Len(doc), 0, Len(doc), "none")]
    ELSE LET cutPoint == findWordBoundary(doc, maxLen, "forward")
         IN [content  |-> substring(doc, 0, cutPoint) \o Ellipsis,
             metadata |-> Metadata(TRUE, Len(doc), 0, cutPoint, "length")]

applyContentLimit(doc, maxLen) ==
    IF Len(doc) = 0 \/ Len(doc) <= maxLen
    THEN [content  |-> doc,
          metadata |-> Metadata(FALSE, Len(doc), 0, Len(doc), "none")]
    ELSE LET cutPoint == findWordBoundary(doc, maxLen, "backward")
         IN [content  |-> substring(doc, 0, cutPoint) \o Ellipsis,
             metadata |-> Metadata(TRUE, Len(doc), 0, cutPoint, "length")]

-----------------------------------------------------------------------------
(* sortRanges and mergeOverlappingRanges                                   *)
(*                                                                         *)
(* A range is an object {start, end}.  An array of ranges is modelled as   *)
(* a heap: a sequence of records, the object with identity k being         *)
(* element k of the argument array, and an array of references as a        *)
(* sequence of identities.  [...ranges] copies the array, not the objects, *)
(* so `current` refers to an object of the argument.                       *)

\* The value of an array of references.
Deref(heap, refs) == [k \in 1..Len(refs) |-> heap[refs[k]]]

\* Array.prototype.sort is stable: a reference is placed after every
\* reference already there whose start is <= its own.
RECURSIVE InsertByStart(_, _, _)
InsertByStart(heap, refs, r) ==
    IF refs = <<>> THEN <<r>>
    ELSE IF heap[Head(refs)].start <= heap[r].start
    THEN <<Head(refs)>> \o InsertByStart(heap, Tail(refs), r)
    ELSE <<r>> \o refs

RECURSIVE SortFrom(_, _, _)
SortFrom(heap, k, acc) ==
    IF k > Len(heap) THEN acc
    ELSE SortFrom(heap, k + 1, InsertByStart(heap, acc, k))

\* Faulty variant: the copy is not sorted.
sortRanges_NoSort(heap) == [k \in 1..Len(heap) |-> k]

\* [...ranges].sort((a, b) => a.start - b.start), as references
sortRanges(heap) == SortFrom(heap, 1, <<>>)

\* Faulty variant: only overlapping or touching ranges merge (no gap tolerance).
RECURSIVE MergeLoop_NoGap(_, _, _, _, _)
MergeLoop_NoGap(heap, sorted, i, current, merged) ==
    IF i > Len(sorted)
    THEN [heap |-> heap, merged |-> Append(merged, current)]
    ELSE LET next == sorted[i]
         IN IF heap[next].start <= heap[current].end
            THEN MergeLoop_NoGap(
                     [heap EXCEPT ![current].end =
                                      Max(heap[current].end, heap[next].end)],
                     sorted, i + 1, current, merged)
            ELSE MergeLoop_NoGap(heap, sorted, i + 1, next,
                                 Append(merged, current))

\* Faulty variant: the merged end is the next range's end, not the larger end.
RECURSIVE MergeLoop_NoMax(_, _, _, _, _)
MergeLoop_NoMax(heap, sorted, i, current, merged) ==
    IF i > Len(sorted)
    THEN [heap |-> heap, merged |-> Append(merged, current)]
    ELSE LET next == sorted[i]
         IN IF heap[next].start <= heap[current].end + MERGE_GAP
            THEN MergeLoop_NoMax(
                     [heap EXCEPT ![current].end = heap[next].end],
                     sorted, i + 1, current, merged)
            ELSE MergeLoop_NoMax(heap, sorted, i + 1, next,
                                 Append(merged, current))

\* Faulty variant: a range exactly the gap away does not merge (< for <=).
RECURSIVE MergeLoop_StrictGap(_, _, _, _, _)
MergeLoop_StrictGap(heap, sorted, i, current, merged) ==
    IF i > Len(sorted)
    THEN [heap |-> heap, merged |-> Append(merged, current)]
    ELSE LET next == sorted[i]
         IN IF heap[next].start < heap[current].end + MERGE_GAP
            THEN MergeLoop_StrictGap(
                     [heap EXCEPT ![current].end =
                                      Max(heap[current].end, heap[next].end)],
                     sorted, i + 1, current, merged)
            ELSE MergeLoop_StrictGap(heap, sorted, i + 1, next,
                                     Append(merged, current))

\* The for loop of mergeOverlappingRanges from index i (1-based) on.
RECURSIVE MergeLoop(_, _, _, _, _)
MergeLoop(heap, sorted, i, current, merged) ==
    IF i > Len(sorted)
    THEN [heap |-> heap, merged |-> Append(merged, current)]
    ELSE LET next == sorted[i]
         IN IF heap[next].start <= heap[current].end + MERGE_GAP
            THEN MergeLoop(
                     [heap EXCEPT ![current].end =
                                      Max(heap[current].end, heap[next].end)],
                     sorted, i + 1, current, merged)
            ELSE MergeLoop(heap, sorted, i + 1, next,
                           Append(merged, current))

\* mergeOverlappingRanges(ranges): the heap after the call and the returned
\* array of references.
mergeOverlappingRanges(heap) ==
    IF Len(heap) <= 1
    THEN [heap |-> heap, merged |-> [k \in 1..Len(heap) |-> k]]
    ELSE LET sorted == sortRanges(heap)
         IN MergeLoop(heap, sorted, 2, sorted[1], <<>>)

\* The returned ranges as values.
MergedValues(heap) ==
    LET r == mergeOverlappingRanges(heap) IN Deref(r.heap, r.merged)

-----------------------------------------------------------------------------
(* extractMultiMatchSnippet *)

\* matches.map(match => ({start: max(0, ..), end: min(originalLength, ..)}))
SnippetRanges(doc, ms, size) ==
    [k \in 1..Len(ms) |->
        [start |-> Max(0, ms[k].start - size),
         end   |-> Min(Len(doc), ms[k].end + size)]]

\* mergedRanges, as values (the objects are fresh ones of this call)
MergedRanges(doc, ms, size) == MergedValues(SnippetRanges(doc, ms, size))

\* Faulty variant: every piece that does not start the document gets the
\* ellipsis prefix, not only the first.
RECURSIVE BuildParts_PrefixEveryPiece(_, _, _, _)
BuildParts_PrefixEveryPiece(doc, merged, i, acc) ==
    IF i > Len(merged) THEN acc
    ELSE LET range == merged[i]
             sep == IF i > 1 /\ range.start > merged[i - 1].end + MERGE_GAP
                    THEN Separator ELSE <<>>
             snippetStart == findWordBoundary(doc, range.start, "backward")
             snippetEnd == findWordBoundary(doc, range.end, "forward")
             prefix == IF snippetStart > 0 THEN Ellipsis ELSE <<>>
             suffix == IF snippetEnd < Len(doc) /\ i = Len(merged)
                       THEN Ellipsis ELSE <<>>
         IN BuildParts_PrefixEveryPiece(
                doc, merged, i + 1,
                acc \o sep \o prefix
                    \o substring(doc, snippetStart, snippetEnd)
                    \o suffix)

\* The loop that builds `parts`, from merged range i (1-based) on; acc is
\* parts.join('') so far.
RECURSIVE BuildParts(_, _, _, _)
BuildParts(doc, merged, i, acc) ==
    IF i > Len(merged) THEN acc
    ELSE LET range == merged[i]
             sep == IF i > 1 /\ range.start > merged[i - 1].end + MERGE_GAP
                    THEN Separator ELSE <<>>
             snippetStart == findWordBoundary(doc, range.start, "backward")
             snippetEnd == findWordBoundary(doc, range.end, "forward")
             prefix == IF snippetStart > 0 /\ i = 1 THEN Ellipsis ELSE <<>>
             suffix == IF snippetEnd < Len(doc) /\ i = Len(merged)
                       THEN Ellipsis ELSE <<>>
         IN BuildParts(doc, merged, i + 1,
                       acc \o sep \o prefix
                           \o substring(doc, snippetStart, snippetEnd)
                           \o suffix)

\* The index of the first merged range that contains the match, 0 if none.
RECURSIVE FindRange(_, _, _)
FindRange(merged, match, k) ==
    IF k > Len(merged) THEN 0
    ELSE IF match.start >= merged[k].start /\ match.end <= merged[k].end
    THEN k
    ELSE FindRange(merged, match, k + 1)

\* Faulty variant: the length of the ellipsis prefix is not added.
RECURSIVE AdjustLoop_NoPrefix(_, _, _, _, _, _, _)
AdjustLoop_NoPrefix(doc, merged, ms, j, offsetN, snippetLen, acc) ==
    IF j > Len(ms) THEN acc
    ELSE LET match == ms[j]
             n == Len(merged)
             k == FindRange(merged, match, 1)
             rangeStart == findWordBoundary(doc, merged[k].start, "backward")
             adjustedStartN == offsetN + n * (match.start - rangeStart)
             adjustedEndN == adjustedStartN + n * (match.end - match.start)
             pushed == IF k = 0 THEN acc
                       ELSE Append(acc, [start |-> adjustedStartN,
                                         end   |-> adjustedEndN])
             nextOffsetN == IF n > 1
                            THEN offsetN + snippetLen + SEPARATOR_LEN * n
                            ELSE offsetN
         IN AdjustLoop_NoPrefix(doc, merged, ms, j + 1, nextOffsetN,
                                snippetLen, pushed)

\* The loop that fills adjustedMatchPositions, from match j (1-based) on.
\* currentOffset grows by combinedSnippet.length / mergedRanges.length + 7,
\* which need not be an integer: every position is kept multiplied by
\* n = mergedRanges.length, and offsetN is n * currentOffset.
RECURSIVE AdjustLoop(_, _, _, _, _, _, _)
AdjustLoop(doc, merged, ms, j, offsetN, snippetLen, acc) ==
    IF j > Len(ms) THEN acc
    ELSE LET match == ms[j]
             n == Len(merged)
             k == FindRange(merged, match, 1)
             rangeStart == findWordBoundary(doc, merged[k].start, "backward")
             prefix == IF rangeStart > 0 /\ k = 1 THEN ELLIPSIS_LEN ELSE 0
             adjustedStartN ==
                 offsetN + n * ((match.start - rangeStart) + prefix)
             adjustedEndN == adjustedStartN + n * (match.end - match.start)
             pushed == IF k = 0 THEN acc
                       ELSE Append(acc, [start |-> adjustedStartN,
                                         end   |-> adjustedEndN])
             nextOffsetN == IF n > 1
                            THEN offsetN + snippetLen + SEPARATOR_LEN * n
                            ELSE offsetN
         IN AdjustLoop(doc, merged, ms, j + 1, nextOffsetN, snippetLen, pushed)

\* Faulty variant: the small-document threshold is tested with < for <=.
extractMultiMatchSnippet_StrictThreshold(doc, ms, size) ==
    IF Len(doc) = 0 \/ Len(ms) = 0
    THEN [snippet        |-> doc,
          metadata       |-> Metadata(FALSE, Len(doc), 0, Len(doc), "none"),
          matchPositions |-> <<>>,
          positionScale  |-> 1]
    ELSE IF Len(doc) < size * 3
    THEN [snippet        |-> doc,
          metadata       |-> Metadata(FALSE, Len(doc), 0, Len(doc), "none"),
          matchPositions |-> ms,
          positionScale  |-> 1]
    ELSE LET merged == MergedRanges(doc, ms, size)
             combinedSnippet == BuildParts(doc, merged, 1, <<>>)
             adjusted == AdjustLoop(doc, merged, ms, 1, 0,
                                    Len(combinedSnippet), <<>>)
         IN [snippet        |-> combinedSnippet,
             metadata       |-> Metadata(TRUE, Len(doc),
                                         merged[1].start,
                                         merged[Len(merged)].end,
                                         "snippet"),
             matchPositions |-> IF Len(adjusted) > 0 THEN adjusted ELSE ms,
             positionScale  |-> IF Len(adjusted) > 0 THEN Len(merged) ELSE 1]

\* The result of extractMultiMatchSnippet.  matchPositions[i] of the code is
\* matchPositions[i] here divided by positionScale (1 unless the positions
\* were computed with two or more merged ranges).
\* Faulty variant: the positions are computed for the matches taken in the
\* order of their starts (excerpt order) instead of input order.
RECURSIVE SortedByStart(_)
SortedByStart(ms) ==
    IF ms = <<>> THEN <<>>
    ELSE LET least == CHOOSE i \in 1..Len(ms) :
                          \A j \in 1..Len(ms) :
                              \/ ms[i].start < ms[j].start
                              \/ ms[i].start = ms[j].start /\ i <= j
         IN <<ms[least]>> \o
            SortedByStart([j \in 1..(Len(ms) - 1) |->
                              IF j < least THEN ms[j] ELSE ms[j + 1]])

extractMultiMatchSnippet_ExcerptOrder(doc, ms, size) ==
    IF Len(doc) = 0 \/ Len(ms) = 0
    THEN [snippet        |-> doc,
          metadata       |-> Metadata(FALSE, Len(doc), 0, Len(doc), "none"),
          matchPositions |-> <<>>,
          positionScale  |-> 1]
    ELSE IF Len(doc) <= size * 3
    THEN [snippet        |-> doc,
          metadata       |-> Metadata(FALSE, Len(doc), 0, Len(doc), "none"),
          matchPositions |-> ms,
          positionScale  |-> 1]
    ELSE LET merged == MergedRanges(doc, ms, size)
             combinedSnippet == BuildParts(doc, merged, 1, <<>>)
             adjusted == AdjustLoop(doc, merged, SortedByStart(ms), 1, 0,
                                    Len(combinedSnippet), <<>>)
         IN [snippet        |-> combinedSnippet,
             metadata       |-> Metadata(TRUE, Len(doc),
                                         merged[1].start,
                                         merged[Len(merged)].end,
                                         "snippet"),
             matchPositions |-> IF Len(adjusted) > 0 THEN adjusted ELSE ms,
             positionScale  |-> IF Len(adjusted) > 0 THEN Len(merged) ELSE 1]

extractMultiMatchSnippet(doc, ms, size) ==
    IF Len(doc) = 0 \/ Len(ms) = 0
    THEN [snippet        |-> doc,
          metadata       |-> Metadata(FALSE, Len(doc), 0, Len(doc), "none"),
          matchPositions |-> <<>>,
          positionScale  |-> 1]
    ELSE IF Len(doc) <= size * 3
    THEN [snippet        |-> doc,
          metadata       |-> Metadata(FALSE, Len(doc), 0, Len(doc), "none"),
          matchPositions |-> ms,
          positionScale  |-> 1]
    ELSE LET merged == MergedRanges(doc, ms, size)
             combinedSnippet == BuildParts(doc, merged, 1, <<>>)
             adjusted == AdjustLoop(doc, merged, ms, 1, 0,
                                    Len(combinedSnippet), <<>>)
         IN [snippet        |-> combinedSnippet,
             metadata       |-> Metadata(TRUE, Len(doc),
                                         merged[1].start,
                                         merged[Len(merged)].end,
                                         "snippet"),
             matchPositions |-> IF Len(adjusted) > 0 THEN adjusted ELSE ms,
             positionScale  |-> IF Len(adjusted) > 0 THEN Len(merged) ELSE 1]

-----------------------------------------------------------------------------
(* estimateTokens and enforceTokenBudget *)

CHARS_PER_TOKEN == 4
OVERHEAD_TOKENS == 10

\* Math.ceil(text.length / CHARS_PER_TOKEN)
estimateTokens(text) ==
    (Len(text) + CHARS_PER_TOKEN - 1) \div CHARS_PER_TOKEN

\* A match, as far as enforceTokenBudget reads it.
Item(text) == [message |-> [content |-> text]]

\* Faulty variant: the overhead is left out of the test against the budget.
RECURSIVE BudgetLoop_NoOverheadInTest(_, _, _, _, _)
BudgetLoop_NoOverheadInTest(items, maxTok, k, currentTokens, acc) ==
    IF k > Len(items)
    THEN [matches |-> acc, budgetExceeded |-> FALSE,
          estimatedTokens |-> currentTokens]
    ELSE LET matchTokens == estimateTokens(items[k].message.content)
         IN IF currentTokens + matchTokens > maxTok
            THEN [matches |-> acc, budgetExceeded |-> TRUE,
                  estimatedTokens |-> currentTokens]
            ELSE BudgetLoop_NoOverheadInTest(
                     items, maxTok, k + 1,
                     currentTokens + matchTokens + OVERHEAD_TOKENS,
                     Append(acc, items[k]))

\* Faulty variant: an item that does not fit is skipped and the loop goes on
\* (continue for break); exceeded carries the flag.
RECURSIVE BackfillLoop(_, _, _, _, _, _)
BackfillLoop(items, maxTok, k, currentTokens, acc, exceeded) ==
    IF k > Len(items)
    THEN [matches |-> acc, budgetExceeded |-> exceeded,
          estimatedTokens |-> currentTokens]
    ELSE LET matchTokens == estimateTokens(items[k].message.content)
         IN IF currentTokens + matchTokens + OVERHEAD_TOKENS > maxTok
            THEN BackfillLoop(items, maxTok, k + 1, currentTokens, acc, TRUE)
            ELSE BackfillLoop(items, maxTok, k + 1,
                              currentTokens + matchTokens + OVERHEAD_TOKENS,
                              Append(acc, items[k]), exceeded)

BudgetLoop_Backfill(items, maxTok, k, currentTokens, acc) ==
    BackfillLoop(items, maxTok, k, currentTokens, acc, FALSE)

\* Faulty variant: the flag is also raised when the budget is used up exactly.
RECURSIVE BudgetLoop_FlagAtLimit(_, _, _, _, _)
BudgetLoop_FlagAtLimit(items, maxTok, k, currentTokens, acc) ==
    IF k > Len(items)
    THEN [matches |-> acc, budgetExceeded |-> currentTokens >= maxTok,
          estimatedTokens |-> currentTokens]
    ELSE LET matchTokens == estimateTokens(items[k].message.content)
         IN IF currentTokens + matchTokens + OVERHEAD_TOKENS > maxTok
            THEN [matches |-> acc, budgetExceeded |-> TRUE,
                  estimatedTokens |-> currentTokens]
            ELSE BudgetLoop_FlagAtLimit(
                     items, maxTok, k + 1,
                     currentTokens + matchTokens + OVERHEAD_TOKENS,
                     Append(acc, items[k]))

\* The for loop of enforceTokenBudget from item k (1-based) on, and the
\* object returned after it.
RECURSIVE BudgetLoop(_, _, _, _, _)
BudgetLoop(items, maxTok, k, currentTokens, acc) ==
    IF k > Len(items)
    THEN [matches |-> acc, budgetExceeded |-> FALSE,
          estimatedTokens |-> currentTokens]
    ELSE LET matchTokens == estimateTokens(items[k].message.content)
         IN IF currentTokens + matchTokens + OVERHEAD_TOKENS > maxTok
            THEN [matches |-> acc, budgetExceeded |-> TRUE,
                  estimatedTokens |-> currentTokens]
            ELSE BudgetLoop(items, maxTok, k + 1,
                            currentTokens + matchTokens + OVERHEAD_TOKENS,
                            Append(acc, items[k]))

\* Faulty variant: the list is walked from its tail.
enforceTokenBudget_FromTail(items, maxTok) ==
    BudgetLoop([k \in 1..Len(items) |-> items[Len(items) + 1 - k]],
               maxTok, 1, 0, <<>>)

enforceTokenBudget(items, maxTok) == BudgetLoop(items, maxTok, 1, 0, <<>>)

-----------------------------------------------------------------------------
(* BaseAgentReader.searchMessages (src/readers/base.ts) *)

\* an optional parameter or field that is absent
Undefined == [undefined |-> TRUE]
\* the role parameter when no role filter is given
UndefinedRole == "undefined"

DEFAULT_SNIPPET_CONFIG ==
    [mode |-> "snippet", snippetSize |-> 200, maxContentLength |-> 500,
     contextWindow |-> 4096]

\* { ...DEFAULT_SNIPPET_CONFIG, ...snippetConfig }
MergeConfig(snippetConfig) ==
    IF snippetConfig = Undefined THEN DEFAULT_SNIPPET_CONFIG
    ELSE [f \in DOMAIN DEFAULT_SNIPPET_CONFIG |->
             IF f \in DOMAIN snippetConfig THEN snippetConfig[f]
             ELSE DEFAULT_SNIPPET_CONFIG[f]]

\* The queries of the model: a pattern of one literal code unit, and the
\* empty pattern, which matches the empty string at every index.
Literal(u) == [kind |-> "literal", unit |-> u]
EmptyPattern == [kind |-> "empty"]

\* The while loop over regex.exec with the global flag, from lastIndex on:
\* the positions of all matches, in ascending order; after a zero-length
\* match lastIndex is stepped by one.
RECURSIVE ExecLoop(_, _, _, _)
ExecLoop(query, doc, lastIndex, acc) ==
    IF query.kind = "empty"
    THEN IF lastIndex > Len(doc) THEN acc
         ELSE ExecLoop(query, doc, lastIndex + 1,
                       Append(acc, [start |-> lastIndex, end |-> lastIndex]))
    ELSE LET hits == {p \in lastIndex..(Len(doc) - 1) : doc[p + 1] = query.unit}
         IN IF hits = {} THEN acc
            ELSE LET index == CHOOSE p \in hits : \A q \in hits : p <= q
                 IN ExecLoop(query, doc, index + 1,
                             Append(acc, [start |-> index, end |-> index + 1]))

\* Math.round of the non-negative quotient a / b
RoundDiv(a, b) == (2 * a + b) \div (2 * b)

\* `${role} message ${messageIndex + 1}/${totalMessages} (${percentage}%
\* through session)`, as the tuple of its four interpolated values
generateSessionSummary(totalMessages, messageIndex, msgRole) ==
    <<msgRole, messageIndex + 1, totalMessages,
      RoundDiv(messageIndex * 100, totalMessages)>>

\* messages[from .. to - 1], 0-based
MessagesFromTo(messages, from, to) ==
    [j \in 1..Max(0, to - from) |-> messages[from + j]]

\* "Process content based on output mode": the processed message, the
\* truncation metadata and the final match positions of one matching message
ProcessContent(message, matchPositions, config) ==
    IF config.mode = "snippet"
       /\ Len(message.content) > config.snippetSize * 2
    THEN LET r == extractMultiMatchSnippet(message.content, matchPositions,
                                           config.snippetSize)
         IN [message        |-> [message EXCEPT !.content = r.snippet],
             truncation     |-> r.metadata,
             matchPositions |-> r.matchPositions,
             positionScale  |-> r.positionScale]
    ELSE IF config.mode = "full"
            /\ config.maxContentLength > 0
            /\ Len(message.content) > config.maxContentLength
    THEN LET r == applyContentLimit(message.content, config.maxContentLength)
         IN [message        |-> [message EXCEPT !.content = r.content],
             truncation     |-> r.metadata,
             matchPositions |-> matchPositions,
             positionScale  |-> 1]
    ELSE [message        |-> message,
          truncation     |-> Undefined,
          matchPositions |-> matchPositions,
          positionScale  |-> 1]

\* The SearchMatch pushed for message i (0-based) of a session
SearchMatchOf(messages, i, matchPositions, contextLines, config) ==
    LET message == messages[i + 1]
        processed == ProcessContent(message, matchPositions, config)
        firstMatch == matchPositions[1]
    IN [message        |-> processed.message,
        matchedText    |-> substring(message.content, firstMatch.start,
                                     firstMatch.end),
        contextBefore  |-> IF contextLines > 0
                           THEN MessagesFromTo(messages,
                                               Max(0, i - contextLines), i)
                           ELSE <<>>,
        contextAfter   |-> IF contextLines > 0
                           THEN MessagesFromTo(messages, i + 1,
                                               Min(Len(messages),
                                                   i + 1 + contextLines))
                           ELSE <<>>,
        matchPositions |-> processed.matchPositions,
        positionScale  |-> processed.positionScale,
        truncation     |-> processed.truncation,
        sessionSnippet |-> [totalMessages  |-> Len(messages),
                            messageIndex   |-> i,
                            sessionSummary |->
                                generateSessionSummary(Len(messages), i,
                                                       message.role)]]

\* The loop over the messages of one session, from message i (0-based) on
RECURSIVE MessageLoop(_, _, _, _, _, _, _)
MessageLoop(messages, i, query, role, contextLines, config, acc) ==
    IF i >= Len(messages) THEN acc
    ELSE LET message == messages[i + 1]
             matchPositions == ExecLoop(query, message.content, 0, <<>>)
         IN IF role # UndefinedRole /\ message.role # role
            THEN MessageLoop(messages, i + 1, query, role, contextLines,
                             config, acc)
            ELSE IF Len(matchPositions) > 0
            THEN MessageLoop(messages, i + 1, query, role, contextLines,
                             config,
                             Append(acc, SearchMatchOf(messages, i,
                                                       matchPositions,
                                                       contextLines, config)))
            ELSE MessageLoop(messages, i + 1, query, role, contextLines,
                             config, acc)

\* The loop over the sessions that findSessions returned
RECURSIVE SessionLoop(_, _, _, _, _, _, _)
SessionLoop(found, s, query, role, contextLines, config, acc) ==
    IF s > Len(found) THEN acc
    ELSE SessionLoop(found, s + 1, query, role, contextLines, config,
                     MessageLoop(found[s].messages, 0, query, role,
                                 contextLines, config, acc))

searchMessages(found, query, role, contextLines, snippetConfig) ==
    SessionLoop(found, 1, query, role, contextLines,
                MergeConfig(snippetConfig), <<>>)

-----------------------------------------------------------------------------
(* searchAgents (src/lib/search.ts) *)

\* The readers of options.agents, in the order they are pushed
Readers(agents) ==
    (IF \E k \in 1..Len(agents) : agents[k] = "claude"
     THEN <<"claude">> ELSE <<>>)
    \o (IF \E k \in 1..Len(agents) : agents[k] = "kimi"
        THEN <<"kimi">> ELSE <<>>)

\* allMatches after the concat loop over the readers' results
RECURSIVE Flatten(_)
Flatten(readerResults) ==
    IF readerResults = <<>> THEN <<>>
    ELSE Head(readerResults) \o Flatten(Tail(readerResults))

\* results.reduce((sum, r) => sum + r.length, 0)
RECURSIVE TotalLength(_)
TotalLength(readerResults) ==
    IF readerResults = <<>> THEN 0
    ELSE Len(Head(readerResults)) + TotalLength(Tail(readerResults))

\* Array.prototype.sort with (a, b) => b.timestamp - a.timestamp: most recent
\* first, equal timestamps in their order of arrival (the sort is stable)
RECURSIVE InsertByTimestamp(_, _)
InsertByTimestamp(sorted, m) ==
    IF sorted = <<>> THEN <<m>>
    ELSE IF Head(sorted).message.timestamp >= m.message.timestamp
    THEN <<Head(sorted)>> \o InsertByTimestamp(Tail(sorted), m)
    ELSE <<m>> \o sorted

RECURSIVE SortByTimestamp(_, _)
SortByTimestamp(ms, acc) ==
    IF ms = <<>> THEN acc
    ELSE SortByTimestamp(Tail(ms), InsertByTimestamp(acc, Head(ms)))

\* allMatches.reduce((sum, match) => sum + estimateTokens(content) + 10, 0)
RECURSIVE SumTokens(_)
SumTokens(ms) ==
    IF ms = <<>> THEN 0
    ELSE estimateTokens(Head(ms).message.content) + 10 + SumTokens(Tail(ms))

\* An optional number: <<>> when undefined, <<n>> otherwise
OptionalCount(n) == IF n > 0 THEN <<n>> ELSE <<>>

\* searchAgents from the awaited results of the readers on: opts are the
\* SearchOptions (maxTokens and limit 0 when absent), readerResults is
\* `results`, and every reader's findSessions resolves to sessionsFound.
searchAgents(opts, readerResults, sessionsFound) ==
    LET readers == Readers(opts.agents)
        sortedMatches == SortByTimestamp(Flatten(readerResults), <<>>)
        budgeted == opts.maxTokens > 0
        budgetResult == enforceTokenBudget(sortedMatches, opts.maxTokens)
        afterBudget == IF budgeted THEN budgetResult.matches
                       ELSE sortedMatches
        countAfterBudget ==
            IF budgeted
            THEN TotalLength(readerResults) - Len(afterBudget) ELSE 0
        totalBeforeLimit == Len(afterBudget)
        limited == opts.limit > 0
        afterLimit == IF limited
                      THEN SubSeq(afterBudget, 1,
                                  Min(opts.limit, Len(afterBudget)))
                      ELSE afterBudget
        truncatedCount ==
            IF limited /\ Len(afterLimit) < totalBeforeLimit
            THEN totalBeforeLimit - Len(afterLimit)
            ELSE countAfterBudget
    IN [matches             |-> afterLimit,
        totalMatches        |-> Len(afterLimit),
        searchedSessions    |-> Len(readers) * Len(sessionsFound),
        agents              |-> opts.agents,
        estimatedTokens     |-> IF budgeted THEN budgetResult.estimatedTokens
                                ELSE SumTokens(sortedMatches),
        tokenBudgetExceeded |-> IF budgeted THEN budgetResult.budgetExceeded
                                ELSE FALSE,
        truncatedCount      |-> OptionalCount(truncatedCount)]

-----------------------------------------------------------------------------
(* Inputs *)

\* Code units of a document: a letter that is not in the boundary class and
\* differs at every position, so that equal slices are the same slice; and
\* boundary characters (space, '.', ',', '-', line feed).
LetterUnit(p) == 256 + p
BoundaryUnit(p) == <<32, 46, 44, 45, 10>>[(p % 5) + 1]

\* The document of n code units whose boundary characters are at the
\* (0-based) positions B.
Doc(n, B) ==
    [i \in 1..n |-> IF (i - 1) \in B THEN BoundaryUnit(i - 1)
                    ELSE LetterUnit(i - 1)]

DocLens == (0..MaxShortLen) \cup {MaxDocLen - 1, MaxDocLen}

\* Places of a document of n code units: its first two, its middle and its
\* last two.
Slots(n) == {0, 1, n \div 2, n - 2, n - 1} \cap (0..(n - 1))

\* No boundary character, one, or two, at the places above.
BoundaryLayouts(n) ==
    {{}} \cup {{p} : p \in Slots(n)} \cup {{p, q} : p \in Slots(n), q \in Slots(n)}

Docs == UNION {{Doc(n, B) : B \in BoundaryLayouts(n)} : n \in DocLens}

\* Long documents, for extractSnippet: no boundary character, or boundary
\* characters one code unit inside the ends or at the ends, so that a snap
\* from the middle of the document finds its boundary at the edge of its
\* search distance or not at all.
LongDocs ==
    {Doc(MaxLongLen, B) :
        B \in {{}, {1}, {MaxLongLen - 2}, {1, MaxLongLen - 2},
               {0, MaxLongLen - 1}}}

Range(s, e) == [start |-> s, end |-> e]

\* Every valid match range of a document of n code units.
MatchRanges(n) ==
    {Range(s, e) : s \in 0..n, e \in 0..n} \cap
    {r \in [start : 0..n, end : 0..n] :
        r.start <= r.end /\ r.end - r.start <= MaxMatchLen}

\* The matches handed to extractMultiMatchSnippet start at the first, the
\* second, the middle or the last code unit, or at the end, and are empty or
\* of the widest width.
MatchSlots(n) == {0, 1, n \div 2, n - 1, n} \cap (0..n)
SlotMatchRanges(n) ==
    {r \in MatchRanges(n) :
        /\ r.start \in MatchSlots(n)
        /\ r.end - r.start \in {0, MaxMatchLen}}

\* Sequences of at most k elements of S.
SeqsUpTo(S, k) == UNION {[1..m -> S] : m \in 0..k}

\* Ranges handed to mergeOverlappingRanges on their own: the ranges of the
\* repository's tests, ranges exactly the merge gap (20) and one more than
\* the gap (21) after an end of 10, an empty range, a range nested in
\* another and two ranges of equal start.
TestRanges ==
    {Range(0, 10), Range(8, 15), Range(18, 30), Range(18, 25), Range(50, 60),
     Range(20, 20), Range(20, 25), Range(21, 30), Range(0, 60), Range(8, 10),
     Range(0, 15)}

\* Contents of the matches handed to enforceTokenBudget: item k of a list
\* is its letter ('a', 'b', 'c', ...) repeated, as in the repository's test;
\* the lengths are 0, 1, one token, one token and a code unit, and the 400
\* of the test.
ItemLens == {0, 1, 4, 5, 400}
Repeat(unit, n) == [i \in 1..n |-> unit]
ItemList(lens) == [k \in 1..Len(lens) |-> Item(Repeat(96 + k, lens[k]))]
ItemLists == {ItemList(lens) : lens \in SeqsUpTo(ItemLens, MaxItems)}

\* Budgets: every budget up to MaxBudget tokens, and the 250 of the test.
Budgets == (0..MaxBudget) \cup {250}

\* What findSessions returns: no session, one session of up to MaxMessages
\* messages, or two sessions of one message each.  A message is a user's or
\* an assistant's; its content has one code unit, MaxShortLen code units
\* with a '.' second, or MaxDocLen code units with a boundary character in
\* the middle.  Only the fields of a message that searchMessages reads are
\* kept.
Roles == {"user", "assistant"}
MessageDocs ==
    {Doc(1, {}), Doc(MaxShortLen, {1}), Doc(MaxDocLen, {MaxDocLen \div 2})}
Message(msgRole, doc) == [role |-> msgRole, content |-> doc]
Messages == {Message(r, d) : r \in Roles, d \in MessageDocs}
Session(ms) == [messages |-> ms]
SessionLists ==
    {<<Session(ms)>> : ms \in SeqsUpTo(Messages, MaxMessages)}
    \cup {<<Session(<<m1>>), Session(<<m2>>)>> : m1 \in Messages, m2 \in Messages}
    \cup {<<>>}

\* Queries: the first letter of every document, the '.', the empty pattern.
Queries == {Literal(LetterUnit(0)), Literal(46), EmptyPattern}

\* Snippet configurations: snippet mode with radius 0 or MaxRadius, full and
\* summary mode with no length limit or a limit of MaxShortLen; or none
\* given.
OutputModes == {"snippet", "full", "summary"}
SnippetConfig(m, size, limit) ==
    [mode |-> m, snippetSize |-> size, maxContentLength |-> limit,
     contextWindow |-> DEFAULT_SNIPPET_CONFIG.contextWindow]
SnippetConfigs ==
    {SnippetConfig("snippet", size, MaxShortLen) : size \in {0, MaxRadius}}
    \cup {SnippetConfig("snippet", MaxRadius, 0)}
    \cup {SnippetConfig(m, MaxRadius, limit) :
             m \in OutputModes \ {"snippet"}, limit \in {0, MaxShortLen}}
    \cup {Undefined}

\* The role filter and the number of context messages: neither, or both.
FilterAndContext ==
    {[role |-> UndefinedRole, contextLines |-> 0],
     [role |-> "user", contextLines |-> 1]}

\* What the readers return to searchAgents: up to MaxReaderMatches matches
\* each, a match being a short message (4 code units, 11 tokens with the
\* overhead) of time 1 or a long one (400 code units, 110 tokens) of time 2.
\* Only the fields of a match that searchAgents reads are kept.
FoundMatch(text, time) == [message |-> [content |-> text, timestamp |-> time]]
FoundMatches ==
    {FoundMatch(Repeat(97, 4), 1), FoundMatch(Repeat(98, 400), 2)}
ReaderResults(n) ==
    [1..n -> SeqsUpTo(FoundMatches, MaxReaderMatches)]

\* Search options: the agents asked for, no token budget (0) or a budget
\* of three short matches or of the 250 of the test, no limit (0) or a
\* limit of 1 or 2 results.
AgentLists == {<<>>, <<"claude">>, <<"kimi">>, <<"claude", "kimi">>}
SearchOptions ==
    [agents : AgentLists, maxTokens : {0, 33, 250}, limit : {0, 1, 2}]

-----------------------------------------------------------------------------
(* The caller: one call at a time, its arguments and what came back *)

NoResult == [none |-> TRUE]

Init ==
    /\ op = "idle"
    /\ content = <<>>
    /\ position = 0
    /\ direction = "backward"
    /\ matchStart = 0
    /\ matchEnd = 0
    /\ snippetSize = 0
    /\ matches = <<>>
    /\ maxLength = 0
    /\ maxTokens = 0
    /\ ranges = <<>>
    /\ rangesBefore = <<>>
    /\ sessions = <<>>
    /\ options = Undefined
    /\ results = <<>>
    /\ result = NoResult

CallFindWordBoundary ==
    /\ op = "idle"
    /\ \E doc \in Docs, pos \in -1..(MaxDocLen + 1),
          dir \in {"backward", "forward"} :
          /\ pos <= Len(doc) + 1
          /\ op' = "findWordBoundary"
          /\ content' = doc
          /\ position' = pos
          /\ direction' = dir
          /\ result' = findWordBoundary(doc, pos, dir)
    /\ UNCHANGED <<matchStart, matchEnd, snippetSize, matches, maxLength,
                   ranges, rangesBefore, maxTokens,
                   sessions, options, results>>

CallExtractSnippet ==
    /\ op = "idle"
    /\ \E doc \in Docs \cup LongDocs, size \in 0..MaxRadius :
          \E m \in MatchRanges(Len(doc)) :
              /\ op' = "extractSnippet"
              /\ content' = doc
              /\ matchStart' = m.start
              /\ matchEnd' = m.end
              /\ snippetSize' = size
              /\ result' = extractSnippet(doc, m.start, m.end, size)
    /\ UNCHANGED <<position, direction, matches, maxLength, ranges, rangesBefore, maxTokens,
                   sessions, options, results>>

CallExtractMultiMatchSnippet ==
    /\ op = "idle"
    /\ \E doc \in Docs, size \in 0..MaxRadius :
          \E ms \in SeqsUpTo(SlotMatchRanges(Len(doc)), MaxMatches) :
              /\ op' = "extractMultiMatchSnippet"
              /\ content' = doc
              /\ matches' = ms
              /\ snippetSize' = size
              /\ result' = extractMultiMatchSnippet(doc, ms, size)
    /\ UNCHANGED <<position, direction, matchStart, matchEnd, maxLength,
                   ranges, rangesBefore, maxTokens,
                   sessions, options, results>>

CallApplyContentLimit ==
    /\ op = "idle"
    /\ \E doc \in Docs, maxLen \in 0..(MaxDocLen + 1) :
          /\ maxLen <= Len(doc) + 1
          /\ op' = "applyContentLimit"
          /\ content' = doc
          /\ maxLength' = maxLen
          /\ result' = applyContentLimit(doc, maxLen)
    /\ UNCHANGED <<position, direction, matchStart, matchEnd, snippetSize,
                   matches, ranges, rangesBefore, maxTokens,
                   sessions, options, results>>

CallEnforceTokenBudget ==
    /\ op = "idle"
    /\ \E items \in ItemLists, maxTok \in Budgets :
          /\ op' = "enforceTokenBudget"
          /\ matches' = items
          /\ maxTokens' = maxTok
          /\ result' = enforceTokenBudget(items, maxTok)
    /\ UNCHANGED <<content, position, direction, matchStart, matchEnd,
                   snippetSize, maxLength, ranges, rangesBefore,
                   sessions, options, results>>

\* The caller builds an array of range objects and notes their values ...
BuildRanges ==
    /\ op = "idle"
    /\ \E rs \in SeqsUpTo(TestRanges, MaxRanges) :
          /\ op' = "rangesBuilt"
          /\ ranges' = rs
          /\ rangesBefore' = rs
    /\ UNCHANGED <<content, position, direction, matchStart, matchEnd,
                   snippetSize, matches, maxLength, result,
                   maxTokens,
                   sessions, options, results>>

\* ... and hands it to mergeOverlappingRanges.  `ranges` is the caller's
\* array after the call; `result` is the returned array as values.
CallMergeOverlappingRanges ==
    /\ op = "rangesBuilt"
    /\ LET r == mergeOverlappingRanges(ranges)
       IN /\ op' = "mergeOverlappingRanges"
          /\ ranges' = r.heap
          /\ result' = Deref(r.heap, r.merged)
    /\ UNCHANGED <<content, position, direction, matchStart, matchEnd,
                   snippetSize, matches, maxLength, rangesBefore, maxTokens,
                   sessions, options, results>>

\* The caller drops the result; nothing is kept between calls.
CallSearchMessages ==
    /\ op = "idle"
    /\ \E found \in SessionLists, query \in Queries,
          fc \in FilterAndContext, snippetConfig \in SnippetConfigs :
              /\ op' = "searchMessages"
              /\ sessions' = found
              /\ options' = [query |-> query, role |-> fc.role,
                             contextLines |-> fc.contextLines,
                             snippetConfig |-> snippetConfig]
              /\ result' = searchMessages(found, query, fc.role,
                                          fc.contextLines, snippetConfig)
    /\ UNCHANGED <<content, position, direction, matchStart, matchEnd,
                   snippetSize, matches, maxLength, maxTokens, ranges,
                   rangesBefore, results>>

CallSearchAgents ==
    /\ op = "idle"
    /\ \E opts \in SearchOptions,
          sessionsFound \in {<<>>, <<Session(<<>>)>>} :
          \E readerResults \in ReaderResults(Len(Readers(opts.agents))) :
              /\ op' = "searchAgents"
              /\ options' = opts
              /\ results' = readerResults
              /\ sessions' = sessionsFound
              /\ result' = searchAgents(opts, readerResults, sessionsFound)
    /\ UNCHANGED <<content, position, direction, matchStart, matchEnd,
                   snippetSize, matches, maxLength, maxTokens, ranges,
                   rangesBefore>>

Return ==
    /\ op \notin {"idle", "rangesBuilt"}
    /\ op' = "idle"
    /\ content' = <<>>
    /\ position' = 0
    /\ direction' = "backward"
    /\ matchStart' = 0
    /\ matchEnd' = 0
    /\ snippetSize' = 0
    /\ matches' = <<>>
    /\ maxLength' = 0
    /\ maxTokens' = 0
    /\ ranges' = <<>>
    /\ rangesBefore' = <<>>
    /\ sessions' = <<>>
    /\ options' = Undefined
    /\ results' = <<>>
    /\ result' = NoResult

Next ==
    \/ CallFindWordBoundary
    \/ CallExtractSnippet
    \/ CallExtractMultiMatchSnippet
    \/ CallApplyContentLimit
    \/ CallEnforceTokenBudget
    \/ BuildRanges
    \/ CallMergeOverlappingRanges
    \/ CallSearchMessages
    \/ CallSearchAgents
    \/ Return

Spec == Init /\ [][Next]_vars

-----------------------------------------------------------------------------
(* Vocabulary of the properties *)

IsFind == op = "findWordBoundary"
IsSnippet == op = "extractSnippet"
IsMulti == op = "extractMultiMatchSnippet"
IsLimit == op = "applyContentLimit"
IsMerge == op = "mergeOverlappingRanges"
IsBudget == op = "enforceTokenBudget"

\* text holds piece as a contiguous run of code units
Contains(text, piece) ==
    \E k \in 0..(Len(text) - Len(piece)) :
        SubSeq(text, k + 1, k + Len(piece)) = piece

\* The text a call returned (applyContentLimit names the field `content`).
ResultText == IF IsLimit THEN result.content ELSE result.snippet

\* The spans of the document that extractMultiMatchSnippet slices, one for
\* each merged range.
RECURSIVE SnapWindows(_, _, _)
SnapWindows(doc, merged, k) ==
    IF k = 0 THEN <<>>
    ELSE Append(SnapWindows(doc, merged, k - 1),
                [start |-> findWordBoundary(doc, merged[k].start, "backward"),
                 end   |-> findWordBoundary(doc, merged[k].end, "forward")])

Pieces(doc, ms, size) ==
    LET merged == MergedRanges(doc, ms, size)
    IN SnapWindows(doc, merged, Len(merged))

-----------------------------------------------------------------------------
(* C10  Boundary safety: for every document, every integer position        *)
(* (negative and beyond the end included) and either direction,            *)
(* findWordBoundary returns a value in [0, length(document)]; it returns 0 *)
(* when position <= 0 and length(document) when position >= the length.    *)
C10_BoundarySafety ==
    IsFind =>
        /\ result \in 0..Len(content)
        /\ (position <= 0 => result = 0)
        /\ (position >= Len(content) => result = Len(content))

\* a call with a position beyond the end of a non-empty document, and a call
\* inside the document are both part of the claim; the witness is the first
C10_Witness ==
    /\ IsFind
    /\ Len(content) > 0
    /\ position > Len(content)
    /\ direction = "forward"
    /\ result = Len(content)

-----------------------------------------------------------------------------
(* C2  Containment: the text extractSnippet returns contains               *)
(* document[matchStart, matchEnd) verbatim, and the text                   *)
(* extractMultiMatchSnippet returns contains document[m.start, m.end)      *)
(* verbatim for every input match m; every match lies inside a retained    *)
(* slice whose snapped start is <= m.start and snapped end is >= m.end.    *)
C2_Containment ==
    /\ IsSnippet =>
          /\ Contains(result.snippet, substring(content, matchStart, matchEnd))
          /\ result.metadata.content_truncated =>
                /\ result.metadata.snippet_start <= matchStart
                /\ result.metadata.snippet_end >= matchEnd
                /\ result.snippet =
                       substring(content, result.metadata.snippet_start,
                                 result.metadata.snippet_end)
    /\ IsMulti =>
          LET pieces == Pieces(content, matches, snippetSize)
          IN \A i \in 1..Len(matches) :
                 /\ Contains(result.snippet,
                             substring(content, matches[i].start,
                                       matches[i].end))
                 /\ result.metadata.content_truncated =>
                       \E k \in 1..Len(pieces) :
                           /\ pieces[k].start <= matches[i].start
                           /\ pieces[k].end >= matches[i].end
                           /\ Contains(result.snippet,
                                       substring(content, pieces[k].start,
                                                 pieces[k].end))

\* a truncated multi-match excerpt of two pieces, both matches one code unit
C2_Witness ==
    /\ IsMulti
    /\ result.metadata.content_truncated
    /\ Len(matches) = 2
    /\ \A i \in 1..2 : matches[i].end > matches[i].start
    /\ Len(Pieces(content, matches, snippetSize)) = 2

-----------------------------------------------------------------------------
(* C3  No-op below threshold: extractSnippet with length(document) <=      *)
(* 2*radius + (matchEnd - matchStart), extractMultiMatchSnippet with       *)
(* length(document) <= 3*radius, and applyContentLimit with                *)
(* length(document) <= maxLength each return the document unchanged, with  *)
(* content_truncated = false and truncation_type = none.                   *)
BelowThreshold ==
    \/ IsSnippet /\ Len(content) <= 2 * snippetSize + (matchEnd - matchStart)
    \/ IsMulti /\ Len(content) <= 3 * snippetSize
    \/ IsLimit /\ Len(content) <= maxLength

C3_NoOpBelowThreshold ==
    BelowThreshold =>
        /\ ResultText = content
        /\ result.metadata.content_truncated = FALSE
        /\ result.metadata.truncation_type = "none"

\* a document exactly at the multi-match threshold, with a match
C3_Witness ==
    /\ IsMulti
    /\ Len(matches) > 0
    /\ Len(content) > 0
    /\ Len(content) = 3 * snippetSize
    /\ result.snippet = content

-----------------------------------------------------------------------------
(* C4  Metadata invariant: in every result of extractSnippet,              *)
(* extractMultiMatchSnippet and applyContentLimit, content_truncated =     *)
(* false implies snippet_start = 0 and snippet_end = original_length,      *)
(* where original_length = length(document).                               *)
C4_MetadataInvariant ==
    (IsSnippet \/ IsMulti \/ IsLimit) =>
        (result.metadata.content_truncated = FALSE =>
            /\ result.metadata.snippet_start = 0
            /\ result.metadata.snippet_end = result.metadata.original_length
            /\ result.metadata.original_length = Len(content))

\* an untruncated result for a non-empty document
C4_Witness ==
    /\ IsLimit
    /\ Len(content) > 0
    /\ result.metadata.content_truncated = FALSE
    /\ result.metadata.snippet_end = Len(content)

-----------------------------------------------------------------------------
(* Vocabulary of the properties of mergeOverlappingRanges *)

SetMax(S) == CHOOSE x \in S : \A y \in S : y <= x
SetMin(S) == CHOOSE x \in S : \A y \in S : x <= y

\* Range i comes before range j when the ranges are taken in ascending
\* start order (ranges of equal start in the order given).
Before(rs, i, j) ==
    \/ rs[i].start < rs[j].start
    \/ rs[i].start = rs[j].start /\ i < j

\* The input ranges whose start lies from output range k's start up to the
\* next output range's start.
Group(rs, out, k) ==
    {i \in 1..Len(rs) :
        /\ out[k].start <= rs[i].start
        /\ (k < Len(out) => rs[i].start < out[k + 1].start)}

\* The permutations of 1..n
Perms(n) ==
    {f \in [1..n -> 1..n] : \A i, j \in 1..n : i # j => f[i] # f[j]}

\* position x lies in the half-open range r
Covers(r, x) == r.start <= x /\ x < r.end

-----------------------------------------------------------------------------
(* C5  Shape of the consolidated output: for every list of valid ranges,   *)
(* the output of mergeOverlappingRanges is sorted by start ascending,      *)
(* pairwise non-overlapping, and consecutive output ranges are separated   *)
(* by a gap of at least 10 (next.start - previous.end >= 10).              *)
C5_ConsolidatedShape ==
    IsMerge =>
        /\ \A k \in 1..(Len(result) - 1) :
              /\ result[k].start <= result[k + 1].start
              /\ result[k + 1].start - result[k].end >= MERGE_GAP
        /\ \A j, k \in 1..Len(result) :
              j < k => result[j].end <= result[k].start

\* an input given out of order that consolidates into two or more ranges
C5_Witness ==
    /\ IsMerge
    /\ Len(result) >= 2
    /\ \E i \in 1..(Len(rangesBefore) - 1) :
          rangesBefore[i].start > rangesBefore[i + 1].start

-----------------------------------------------------------------------------
(* C6  Monotonic consolidation: mergeOverlappingRanges returns no more     *)
(* ranges than it was given, and every position covered by some input      *)
(* range is covered by some output range.                                  *)
C6_MonotonicConsolidation ==
    IsMerge =>
        /\ Len(result) <= Len(rangesBefore)
        /\ \A i \in 1..Len(rangesBefore) :
              \A x \in rangesBefore[i].start..(rangesBefore[i].end - 1) :
                  \E k \in 1..Len(result) : Covers(result[k], x)

\* a later range nested inside an earlier one: the merge keeps the wider end
C6_Witness ==
    /\ IsMerge
    /\ Len(result) < Len(rangesBefore)
    /\ \E i, j \in 1..Len(rangesBefore) :
          /\ rangesBefore[i].start < rangesBefore[j].start
          /\ rangesBefore[j].end < rangesBefore[i].end

-----------------------------------------------------------------------------
(* C7  Merge rule: taking the inputs in ascending start order, a range     *)
(* joins the current group exactly when its start <= (the group's max end  *)
(* so far) + 10, otherwise it opens a new group; each output range is      *)
(* [min start, max end) of one such maximal group.  [{0,10},{8,15},        *)
(* {18,30}] gives [{0,30}]; [{0,10},{18,25},{50,60}] gives [{0,25},        *)
(* {50,60}]; empty input gives empty output and a single range is returned *)
(* with the same bounds.                                                   *)
C7_MergeRule ==
    IsMerge =>
        LET rs == rangesBefore
            out == result
        IN /\ (Len(rs) = 0) = (Len(out) = 0)
           /\ Len(rs) = 1 => out = rs
           /\ \A i \in 1..Len(rs) :
                 Cardinality({k \in 1..Len(out) : i \in Group(rs, out, k)}) = 1
           /\ \A k \in 1..Len(out) :
                 LET G == Group(rs, out, k)
                 IN /\ G # {}
                    /\ out[k].start = SetMin({rs[i].start : i \in G})
                    /\ out[k].end = SetMax({rs[i].end : i \in G})
                    /\ \A i \in G :
                          LET earlier == {j \in G : Before(rs, j, i)}
                          IN IF earlier # {}
                             THEN rs[i].start <=
                                    SetMax({rs[j].end : j \in earlier})
                                        + MERGE_GAP
                             ELSE k > 1 =>
                                    rs[i].start >
                                      SetMax({rs[j].end :
                                                j \in Group(rs, out, k - 1)})
                                          + MERGE_GAP
           /\ rs = <<Range(0, 10), Range(8, 15), Range(18, 30)>>
                 => out = <<Range(0, 30)>>
           /\ rs = <<Range(0, 10), Range(18, 25), Range(50, 60)>>
                 => out = <<Range(0, 25), Range(50, 60)>>

\* the second example of the tests: one merge within the gap, one new group
C7_Witness ==
    /\ IsMerge
    /\ rangesBefore = <<Range(0, 10), Range(18, 25), Range(50, 60)>>
    /\ result = <<Range(0, 25), Range(50, 60)>>

-----------------------------------------------------------------------------
(* C8  Order independence: for every list of valid ranges and every        *)
(* permutation of that list (taken as fresh values), the output of         *)
(* mergeOverlappingRanges is the same list of ranges.                      *)
C8_OrderIndependence ==
    IsMerge =>
        \A f \in Perms(Len(rangesBefore)) :
            MergedValues([k \in 1..Len(rangesBefore) |-> rangesBefore[f[k]]])
                = result

\* an input out of order, with two ranges of equal start and different ends
C8_Witness ==
    /\ IsMerge
    /\ Len(rangesBefore) = 3
    /\ rangesBefore[1].start > rangesBefore[2].start
    /\ rangesBefore[2].start = rangesBefore[3].start
    /\ rangesBefore[2].end < rangesBefore[3].end
    /\ Len(result) = 2

-----------------------------------------------------------------------------
(* C9  Purity of consolidation: mergeOverlappingRanges leaves its argument *)
(* unchanged; after the call the input list and every range in it have the *)
(* same start and end as before the call, also when ranges merge.          *)
C9_Purity ==
    IsMerge => ranges = rangesBefore

-----------------------------------------------------------------------------
(* C1  Exact match remapping: whenever extractMultiMatchSnippet truncates, *)
(* for every index i the slice of the returned text at                     *)
(* [matchPositions[i].start, matchPositions[i].end) equals the slice of    *)
(* the document at [matches[i].start, matches[i].end).  A position that is *)
(* not an integer is rounded down, as String.prototype.substring does.     *)
C1_ExactRemap ==
    (IsMulti /\ result.metadata.content_truncated) =>
        /\ Len(result.matchPositions) = Len(matches)
        /\ \A i \in 1..Len(matches) :
              LET p == result.matchPositions[i]
                  n == result.positionScale
              IN substring(result.snippet, p.start \div n, p.end \div n)
                   = substring(content, matches[i].start, matches[i].end)

-----------------------------------------------------------------------------
(* C11  Nearest boundary within W: for 0 < position < length(document) and *)
(* W = 20, findWordBoundary returns the boundary-class position closest to *)
(* `position` in the given direction among the positions within W code     *)
(* units (backward: the largest index j with position - W < j <= position, *)
(* j >= 0, whose character is a boundary; forward: the smallest index j    *)
(* with position <= j < position + W, j < length, whose character is a     *)
(* boundary), and returns `position` unchanged only when there is none.    *)
BoundariesWithinW(doc, pos, dir) ==
    {j \in 0..(Len(doc) - 1) :
        /\ isWordBoundary(doc[j + 1])
        /\ IF dir = "backward"
           THEN pos - MAX_WORD_BOUNDARY_SEARCH < j /\ j <= pos
           ELSE pos <= j /\ j < pos + MAX_WORD_BOUNDARY_SEARCH}

C11_NearestBoundary ==
    (IsFind /\ 0 < position /\ position < Len(content)) =>
        LET near == BoundariesWithinW(content, position, direction)
        IN result = IF near = {} THEN position
                    ELSE IF direction = "backward" THEN SetMax(near)
                    ELSE SetMin(near)

\* The same with the backward search ending at index 1: the code's loop runs
\* for i < min(W, position), so index 0 is never looked at.
C11_NearestBoundaryFromIndexOne ==
    (IsFind /\ 0 < position /\ position < Len(content)) =>
        LET near == BoundariesWithinW(content, position, direction)
                        \ (IF direction = "backward" THEN {0} ELSE {})
        IN result = IF near = {} THEN position
                    ELSE IF direction = "backward" THEN SetMax(near)
                    ELSE SetMin(near)

-----------------------------------------------------------------------------
(* Vocabulary of the properties of enforceTokenBudget *)

\* ceil(length / 4) + 10: the least n with 4 * n >= length, and the overhead
TokenCost(item) ==
    LET len == Len(item.message.content)
    IN (CHOOSE n \in 0..len : 4 * n >= len /\ 4 * (n - 1) < len) + 10

RECURSIVE SumCost(_)
SumCost(items) ==
    IF items = <<>> THEN 0 ELSE TokenCost(Head(items)) + SumCost(Tail(items))

Prefix(items, m) == SubSeq(items, 1, m)

IsPrefixOf(p, l) == Len(p) <= Len(l) /\ p = Prefix(l, Len(p))

-----------------------------------------------------------------------------
(* C12  Budget is never exceeded: for every ordered list of results and    *)
(* every maxTokens >= 0, enforceTokenBudget returns estimatedTokens equal  *)
(* to the sum over the admitted items of (ceil(length(content)/4) + 10),   *)
(* and that sum is <= maxTokens.                                           *)
C12_BudgetNeverExceeded ==
    IsBudget =>
        /\ result.estimatedTokens = SumCost(result.matches)
        /\ SumCost(result.matches) <= maxTokens

\* two items admitted that use the budget up exactly, a third refused
C12_Witness ==
    /\ IsBudget
    /\ Len(matches) = 3
    /\ Len(result.matches) = 2
    /\ result.estimatedTokens = maxTokens

-----------------------------------------------------------------------------
C13_ExampleReached ==
    /\ IsBudget
    /\ Len(matches) = 3
    /\ \A k \in 1..3 : Len(matches[k].message.content) = 400
    /\ maxTokens = 250
    /\ Len(result.matches) = 2

-----------------------------------------------------------------------------
(* C14  Advisory flag: budgetExceeded is true exactly when at least one    *)
(* input item was not admitted (admitted count < input count); it is false *)
(* when every item fits and when the input is empty (in which case         *)
(* estimatedTokens = 0).                                                   *)
C14_AdvisoryFlag ==
    IsBudget =>
        /\ result.budgetExceeded = (Len(result.matches) < Len(matches))
        /\ matches = <<>> =>
              result.budgetExceeded = FALSE /\ result.estimatedTokens = 0

\* every item fits and the budget is used up exactly: the flag stays false
C14_Witness ==
    /\ IsBudget
    /\ Len(matches) = 3
    /\ Len(result.matches) = 3
    /\ result.estimatedTokens = maxTokens
    /\ result.budgetExceeded = FALSE

-----------------------------------------------------------------------------
(* C15  Tail monotonicity: for every input list L, every prefix P of L and *)
(* every maxTokens, estimatedTokens(P, maxTokens) <= estimatedTokens(L,    *)
(* maxTokens), and the items admitted for P are a prefix of the items      *)
(* admitted for L.                                                         *)
C15_TailMonotonicity ==
    IsBudget =>
        \A m \in 0..Len(matches) :
            LET forPrefix == enforceTokenBudget(Prefix(matches, m), maxTokens)
            IN /\ forPrefix.estimatedTokens <= result.estimatedTokens
               /\ IsPrefixOf(forPrefix.matches, result.matches)

\* a list of three of which two are admitted: its prefixes of length 0..3
\* admit 0, 1, 2 and 2 items
C15_Witness ==
    /\ IsBudget
    /\ Len(matches) = 3
    /\ Len(result.matches) = 2
    /\ result.budgetExceeded

-----------------------------------------------------------------------------
-----------------------------------------------------------------------------
(* C17  Degenerate inputs of extractMultiMatchSnippet: when the document   *)
(* is empty or the match list is empty, the result text is the document    *)
(* verbatim (empty for an empty document), truncation_type = none,         *)
(* content_truncated = false, and the returned matchPositions equal the    *)
(* input match list ([] for an empty list, the given matches when the      *)
(* document is empty and the list is not).                                 *)
C17_DegenerateInputs ==
    (IsMulti /\ (Len(content) = 0 \/ Len(matches) = 0)) =>
        /\ result.snippet = content
        /\ result.metadata.truncation_type = "none"
        /\ result.metadata.content_truncated = FALSE
        /\ result.positionScale = 1
        /\ result.matchPositions = matches

\* the part of C17 that the code keeps: everything but the positions of an
\* empty document with matches
C17_DegenerateInputsButPositions ==
    (IsMulti /\ (Len(content) = 0 \/ Len(matches) = 0)) =>
        /\ result.snippet = content
        /\ result.metadata.truncation_type = "none"
        /\ result.metadata.content_truncated = FALSE
        /\ Len(matches) = 0 => result.matchPositions = matches
        /\ Len(matches) > 0 => result.matchPositions = <<>>

-----------------------------------------------------------------------------
(* Vocabulary of the retained span *)

\* the slice of the document that extractSnippet copies when it truncates
SnippetPiece(doc, mStart, mEnd, size) ==
    [start |-> findWordBoundary(doc, Max(0, mStart - size), "backward"),
     end   |-> findWordBoundary(doc, Min(Len(doc), mEnd + size), "forward")]

Offsets(piece) == {o \in 0..(Len(content) - 1) : piece.start <= o /\ o < piece.end}

\* the document offsets copied into the excerpt of a truncated result
RetainedOffsets ==
    IF IsSnippet
    THEN Offsets(SnippetPiece(content, matchStart, matchEnd, snippetSize))
    ELSE LET pieces == Pieces(content, matches, snippetSize)
         IN UNION {Offsets(pieces[k]) : k \in 1..Len(pieces)}

-----------------------------------------------------------------------------
(* C18  Metadata reports the retained span: in every result of             *)
(* extractSnippet and extractMultiMatchSnippet with content_truncated =    *)
(* true, snippet_start is the document offset of the first code unit       *)
(* retained in the excerpt text and snippet_end is the offset just past    *)
(* the last retained one: every document offset copied into the text lies  *)
(* in [snippet_start, snippet_end), and snippet_start and snippet_end - 1  *)
(* are themselves copied when the excerpt is non-empty.                    *)
C18_RetainedSpan ==
    ((IsSnippet \/ IsMulti) /\ result.metadata.content_truncated) =>
        LET kept == RetainedOffsets
            from == result.metadata.snippet_start
            to   == result.metadata.snippet_end
        IN /\ \A o \in kept : from <= o /\ o < to
           /\ kept # {} => (from \in kept /\ (to - 1) \in kept)

\* the same for extractSnippet alone, where the code keeps it
C18_RetainedSpanSingle ==
    (IsSnippet /\ result.metadata.content_truncated) =>
        LET kept == RetainedOffsets
            from == result.metadata.snippet_start
            to   == result.metadata.snippet_end
        IN /\ \A o \in kept : from <= o /\ o < to
           /\ kept # {} => (from \in kept /\ (to - 1) \in kept)
           /\ result.snippet = SubSeq(content, from + 1, to)

-----------------------------------------------------------------------------
(* C19  A single-match excerpt flagged truncated is never the whole        *)
(* document: for every non-empty document, radius >= 0 and valid match     *)
(* range, whenever extractSnippet returns content_truncated = true, the    *)
(* returned text is strictly shorter than the document (snippet_start > 0  *)
(* or snippet_end < original_length).                                      *)
C19_TruncatedIsShorter ==
    (/\ IsSnippet
     /\ Len(content) > 0
     /\ snippetSize >= 0
     /\ 0 <= matchStart /\ matchStart <= matchEnd /\ matchEnd <= Len(content)
     /\ result.metadata.content_truncated) =>
        /\ Len(result.snippet) < Len(content)
        /\ \/ result.metadata.snippet_start > 0
           \/ result.metadata.snippet_end < result.metadata.original_length

\* a document one unit longer than the window, cut from offset 0 and short of
\* the document by that one unit
C19_Witness ==
    /\ IsSnippet
    /\ result.metadata.content_truncated
    /\ Len(content) = 2 * snippetSize + (matchEnd - matchStart) + 1
    /\ result.metadata.snippet_start = 0
    /\ Len(result.snippet) > 0
    /\ Len(result.snippet) = Len(content) - 1

-----------------------------------------------------------------------------
(* C20  A multi-match excerpt flagged truncated is never the whole         *)
(* document: for every document, radius >= 0 and non-empty list of valid   *)
(* matches, whenever extractMultiMatchSnippet returns content_truncated =  *)
(* true, at least one code unit of the document is omitted from the        *)
(* excerpt (the retained slices do not cover all of [0, length)).          *)
C20_TruncatedOmitsSomething ==
    (/\ IsMulti
     /\ snippetSize >= 0
     /\ Len(matches) > 0
     /\ \A i \in 1..Len(matches) :
           /\ 0 <= matches[i].start
           /\ matches[i].start <= matches[i].end
           /\ matches[i].end <= Len(content)
     /\ result.metadata.content_truncated) =>
        \E o \in 0..(Len(content) - 1) : o \notin RetainedOffsets

\* the weaker fact the code keeps: a truncated result comes from a document
\* longer than three radii
C20_TruncatedAboveThreshold ==
    (IsMulti /\ result.metadata.content_truncated) =>
        Len(content) > 3 * snippetSize

-----------------------------------------------------------------------------
(* Vocabulary of the remapped positions *)

ValidMatches ==
    \A i \in 1..Len(matches) :
        /\ 0 <= matches[i].start
        /\ matches[i].start <= matches[i].end
        /\ matches[i].end <= Len(content)

\* the index of the consolidated window that holds match m (0: none)
WindowOf(merged, m) ==
    IF \E k \in 1..Len(merged) :
           merged[k].start <= m.start /\ m.end <= merged[k].end
    THEN SetMin({k \in 1..Len(merged) :
                    merged[k].start <= m.start /\ m.end <= merged[k].end})
    ELSE 0

-----------------------------------------------------------------------------
-----------------------------------------------------------------------------
(* Vocabulary of the properties of searchMessages *)

IsSearchMessages == op = "searchMessages"

\* the configuration searchMessages works with
Config == MergeConfig(options.snippetConfig)

-----------------------------------------------------------------------------
(* C22  Per-message length limit in the search pipeline: for every output  *)
(* mode (snippet, full, summary), when maxContentLength > 0 the content of *)
(* every match returned by BaseAgentReader.searchMessages has at most      *)
(* maxContentLength characters, and when maxContentLength = 0 no length    *)
(* limit is applied to the content.                                        *)
C22_PerMessageLimit ==
    IsSearchMessages =>
        /\ Config.maxContentLength > 0 =>
              \A k \in 1..Len(result) :
                  Len(result[k].message.content) <= Config.maxContentLength
        /\ Config.maxContentLength = 0 =>
              \A k \in 1..Len(result) :
                  \/ result[k].truncation = Undefined
                  \/ result[k].truncation.truncation_type # "length"

\* what the code keeps: in full mode a limited content is at most the limit
\* and the three code units of the ellipsis long, and a limit of 0 limits
\* nothing
C22_FullModeLimitAndEllipsis ==
    IsSearchMessages =>
        /\ (Config.maxContentLength > 0 /\ Config.mode = "full") =>
              \A k \in 1..Len(result) :
                  Len(result[k].message.content)
                      <= Config.maxContentLength + 3
        /\ Config.maxContentLength = 0 =>
              \A k \in 1..Len(result) :
                  \/ result[k].truncation = Undefined
                  \/ result[k].truncation.truncation_type # "length"

-----------------------------------------------------------------------------
(* C23  Remapped positions are valid ranges over the excerpt: for every    *)
(* result of extractMultiMatchSnippet on valid matches, every entry p of   *)
(* matchPositions has integer bounds with 0 <= p.start <= p.end <=         *)
(* length(text).  An entry held multiplied by positionScale is an integer  *)
(* when positionScale divides it.                                          *)
C23_PositionsWithinText ==
    (IsMulti /\ ValidMatches) =>
        \A i \in 1..Len(result.matchPositions) :
            LET p == result.matchPositions[i]
                n == result.positionScale
            IN /\ p.start % n = 0
               /\ p.end % n = 0
               /\ 0 <= p.start
               /\ p.start <= p.end
               /\ p.end <= n * Len(result.snippet)

\* what the code keeps: the bounds are ordered and not negative
C23_PositionsOrdered ==
    (IsMulti /\ ValidMatches) =>
        \A i \in 1..Len(result.matchPositions) :
            LET p == result.matchPositions[i]
            IN 0 <= p.start /\ p.start <= p.end

\* the same claim without the integrality: the bounds lie within the text
C23_PositionsBounded ==
    (IsMulti /\ ValidMatches) =>
        \A i \in 1..Len(result.matchPositions) :
            LET p == result.matchPositions[i]
                n == result.positionScale
            IN p.end <= n * Len(result.snippet)

-----------------------------------------------------------------------------
(* Vocabulary of the construction of the excerpt *)

\* document[piece.start, piece.end)
Slice(doc, piece) == SubSeq(doc, piece.start + 1, piece.end)

\* piece_1 .. piece_k with ' [...] ' between every two consecutive pieces
RECURSIVE JoinPieces(_, _, _)
JoinPieces(doc, pieces, k) ==
    IF k = 0 THEN <<>>
    ELSE IF k = 1 THEN Slice(doc, pieces[1])
    ELSE JoinPieces(doc, pieces, k - 1)
           \o <<32, 91, 46, 46, 46, 93, 32>> \o Slice(doc, pieces[k])

-----------------------------------------------------------------------------
(* C24  Construction of the multi-match excerpt: when                      *)
(* extractMultiMatchSnippet truncates, with w_1..w_n the consolidated      *)
(* windows of [max(0, m.start - radius), min(length, m.end + radius)) in   *)
(* ascending order and piece_k = document[findWordBoundary(w_k.start,      *)
(* backward), findWordBoundary(w_k.end, forward)), the text is exactly:    *)
(* '...' if the first snapped start > 0, then piece_1 .. piece_n in        *)
(* ascending order with exactly one separator ' [...] ' between every two  *)
(* consecutive pieces, then '...' if the last snapped end <                *)
(* length(document).                                                       *)
C24_ExcerptConstruction ==
    (IsMulti /\ result.metadata.content_truncated) =>
        LET pieces == Pieces(content, matches, snippetSize)
            n == Len(pieces)
            lead == IF pieces[1].start > 0 THEN <<46, 46, 46>> ELSE <<>>
            trail == IF pieces[n].end < Len(content)
                     THEN <<46, 46, 46>> ELSE <<>>
        IN /\ \A k \in 1..(n - 1) : pieces[k].start <= pieces[k + 1].start
           /\ result.snippet = lead \o JoinPieces(content, pieces, n) \o trail

\* two pieces, the first not at the start of the document and the last not
\* at its end
C24_Witness ==
    /\ IsMulti
    /\ result.metadata.content_truncated
    /\ LET pieces == Pieces(content, matches, snippetSize)
       IN /\ Len(pieces) = 2
          /\ pieces[1].start > 0
          /\ pieces[2].end < Len(content)
          /\ pieces[1].end > pieces[1].start

-----------------------------------------------------------------------------
(* C25  Exact remapping with one window: when extractMultiMatchSnippet     *)
(* truncates and all match windows consolidate into a single window, then  *)
(* for every input match i the slice of the returned text at               *)
(* matchPositions[i] equals the slice of the document at matches[i],       *)
(* whether or not the ellipsis prefix is present.                          *)
C25_ExactRemapOneWindow ==
    (/\ IsMulti
     /\ ValidMatches
     /\ result.metadata.content_truncated
     /\ Len(MergedRanges(content, matches, snippetSize)) = 1) =>
        /\ result.positionScale = 1
        /\ Len(result.matchPositions) = Len(matches)
        /\ \A i \in 1..Len(matches) :
              LET p == result.matchPositions[i]
              IN /\ 0 <= p.start /\ p.start <= p.end
                 /\ p.end <= Len(result.snippet)
                 /\ SubSeq(result.snippet, p.start + 1, p.end)
                      = SubSeq(content, matches[i].start + 1, matches[i].end)

\* one window behind an ellipsis prefix, holding two matches of which the
\* second is not empty
C25_Witness ==
    /\ IsMulti
    /\ result.metadata.content_truncated
    /\ Len(matches) = 2
    /\ LET pieces == Pieces(content, matches, snippetSize)
       IN Len(pieces) = 1 /\ pieces[1].start > 0
    /\ matches[2].end > matches[2].start
    /\ matches[1] # matches[2]

-----------------------------------------------------------------------------
(* C26  Bounded movement of findWordBoundary: for 0 < position <           *)
(* length(document) and W = 20, a backward search returns r with           *)
(* position - W < r <= position and a forward search returns r with        *)
(* position <= r < position + W; the result never moves against the        *)
(* requested direction.                                                    *)
C26_BoundedMovement ==
    (IsFind /\ 0 < position /\ position < Len(content)) =>
        /\ direction = "backward" =>
              (position - 20 < result /\ result <= position)
        /\ direction = "forward" =>
              (position <= result /\ result < position + 20)

\* a backward search that finds its boundary at the farthest index it looks
\* at, 19 code units before the position
C26_Witness ==
    /\ IsFind
    /\ direction = "backward"
    /\ 0 < position /\ position < Len(content)
    /\ result = position - 19

\* a forward search that gives up although a boundary lies 20 or more code
\* units ahead
C26_BoundaryBeyondReach ==
    /\ IsFind
    /\ direction = "forward"
    /\ 0 < position /\ position < Len(content)
    /\ result = position
    /\ \E j \in (position + 20)..(Len(content) - 1) :
          isWordBoundary(content[j + 1])

-----------------------------------------------------------------------------
(* C27  Bounded excerpt size: for every document, radius >= 0 and valid    *)
(* match range, the text returned by extractSnippet has length at most     *)
(* 2*radius + (matchEnd - matchStart) + 2*(W - 1) with W = 20, regardless  *)
(* of the document's length.                                               *)
C27_BoundedExcerpt ==
    (/\ IsSnippet
     /\ snippetSize >= 0
     /\ 0 <= matchStart /\ matchStart <= matchEnd /\ matchEnd <= Len(content)) =>
        Len(result.snippet)
            <= 2 * snippetSize + (matchEnd - matchStart) + 2 * (20 - 1)

\* an excerpt of exactly that length, shorter than its document: both snaps
\* went as far as they can
C27_Witness ==
    /\ IsSnippet
    /\ result.metadata.content_truncated
    /\ Len(result.snippet)
          = 2 * snippetSize + (matchEnd - matchStart) + 2 * (20 - 1)
    /\ Len(result.snippet) < Len(content)

-----------------------------------------------------------------------------
(* C28  No duplicated text in a multi-match excerpt: when                  *)
(* extractMultiMatchSnippet truncates into two or more pieces, the         *)
(* document spans [snapped start, snapped end) of distinct pieces are      *)
(* pairwise disjoint and in ascending order, so no code unit of the        *)
(* document is copied into the excerpt text more than once.                *)
C28_NoDuplicatedText ==
    (IsMulti /\ ValidMatches /\ result.metadata.content_truncated) =>
        LET pieces == Pieces(content, matches, snippetSize)
        IN \A k \in 1..(Len(pieces) - 1) :
               pieces[k].end <= pieces[k + 1].start

\* what the code keeps: the windows themselves, before they are snapped, are
\* disjoint and more than the merge gap apart
C28_WindowsApart ==
    (IsMulti /\ ValidMatches /\ result.metadata.content_truncated) =>
        LET merged == MergedRanges(content, matches, snippetSize)
        IN \A k \in 1..(Len(merged) - 1) :
               merged[k].end + 10 < merged[k + 1].start

-----------------------------------------------------------------------------
(* C29  Length limiting never grows the content: for every document and    *)
(* every maxLength >= 0, the text returned by applyContentLimit (including *)
(* the appended ellipsis marker) is no longer than the input document.     *)
C29_LimitNeverGrows ==
    (IsLimit /\ maxLength >= 0) => Len(result.content) <= Len(content)

\* what the code keeps: the part copied from the document is shorter than
\* the document, and the text is at most two code units longer than it
C29_LimitGrowsByTwoAtMost ==
    (IsLimit /\ maxLength >= 0) =>
        /\ Len(result.content) <= Len(content) + 2
        /\ result.metadata.content_truncated =>
              result.metadata.snippet_end < Len(content)

-----------------------------------------------------------------------------
(* Vocabulary of the properties of searchAgents *)

IsSearchAgents == op = "searchAgents"

\* the number of matches found by all readers
FoundCount == TotalLength(results)

-----------------------------------------------------------------------------
(* C30  Dropped-match accounting in searchAgents: after the token-budget   *)
(* step followed by the result-limit step, SearchResult.truncatedCount     *)
(* equals (number of matches found by all readers) - (number of matches    *)
(* returned) whenever that difference is positive, and is undefined when   *)
(* it is zero; this holds for every combination of maxTokens and limit,    *)
(* including when both steps drop matches.                                 *)
C30_DroppedMatchAccounting ==
    IsSearchAgents =>
        LET dropped == FoundCount - Len(result.matches)
        IN /\ dropped > 0 => result.truncatedCount = <<dropped>>
           /\ dropped = 0 => result.truncatedCount = <<>>

\* what the code keeps: the count is right unless the budget step and the
\* limit step both drop matches
C30_AccountingOfOneStep ==
    IsSearchAgents =>
        LET dropped == FoundCount - Len(result.matches)
            budgetDropped == options.maxTokens > 0 /\ result.tokenBudgetExceeded
            limitReached == options.limit > 0
                            /\ Len(result.matches) = options.limit
        IN ~(budgetDropped /\ limitReached) =>
               result.truncatedCount = OptionalCount(dropped)

====
